---------------------------- MODULE Spec2Model ----------------------------
(***************************************************************************)
(* The two metadata query scripts of the repository, src/code.py and       *)
(* src/aws_metadata_query.py, run against one instance metadata service.   *)
(*                                                                         *)
(* A text (a Python str) is a sequence of tokens.  A token is one          *)
(* character ("a", "_", "/", "\n", ...) or one literal piece of a message  *)
(* that the scripts format ("Error: ", ...).  A text is always cut into    *)
(* tokens the same way, an answer of the service that spells a message     *)
(* included, so two texts are equal as strings iff they are equal as       *)
(* sequences.                                                              *)
(*                                                                         *)
(* The service is the pair (over, dflt): the answer to the path handed to  *)
(* _make_request is over[path] when the path is in DOMAIN over, and dflt   *)
(* otherwise.  urljoin and the HTTP session are part of the service.       *)
(***************************************************************************)
EXTENDS Naturals, Sequences, FiniteSets, TLC

VARIABLES
    ns,       \* the metadata service: [over |-> path :> answer, dflt |-> answer]
    pc,       \* "start" before main() runs, "done" after it has returned or exited
    script,   \* "code" (src/code.py), "aws" (src/aws_metadata_query.py), "none"
    mode,     \* "tree", "key", "list"
    key,      \* the --key argument (a text)
    token,    \* the client's token: "none" or "tok"
    result,   \* the Python value the client method handed to main()
    fetches,  \* the paths handed to _make_request, in order
    stdout,   \* what was printed, in order
    exit      \* the process exit status

vars == <<ns, pc, script, mode, key, token, result, fetches, stdout, exit>>

-----------------------------------------------------------------------------
(* Bounds of the model *)

\* lines in the answer to the root path
MaxLines == 2
\* answers of the service that differ from its default answer, the root aside
MaxOverrides == 2
\* characters in a --key argument
MaxKeyLen == 2

-----------------------------------------------------------------------------
(* Python str operations used by the scripts *)

NL == "\n"
SLASH == "/"

\* str.strip() with no argument strips whitespace; these are the whitespace
\* characters among the tokens of the model
Whitespace == {NL, " "}

EndsWith(s, c) == Len(s) > 0 /\ s[Len(s)] = c

Contains(s, c) == \E i \in 1..Len(s) : s[i] = c

\* s[:-1]
DropLast(s) == SubSeq(s, 1, Len(s) - 1)

RECURSIVE LStrip(_)
LStrip(s) ==
    IF Len(s) > 0 /\ s[1] \in Whitespace THEN LStrip(Tail(s)) ELSE s

RECURSIVE RStripWs(_)
RStripWs(s) ==
    IF Len(s) > 0 /\ s[Len(s)] \in Whitespace THEN RStripWs(DropLast(s)) ELSE s

\* content.strip()
Strip(s) == RStripWs(LStrip(s))

\* s.rstrip('/'): every trailing '/' goes
RECURSIVE RStripSlash(_)
RStripSlash(s) ==
    IF EndsWith(s, SLASH) THEN RStripSlash(DropLast(s)) ELSE s

\* the index of the first c in s, 0 when there is none
RECURSIVE IndexFrom(_, _, _)
IndexFrom(s, c, i) ==
    IF i > Len(s) THEN 0
    ELSE IF s[i] = c THEN i
    ELSE IndexFrom(s, c, i + 1)

\* s.split(c): "" splits to [""]
RECURSIVE SplitOn(_, _)
SplitOn(s, c) ==
    LET i == IndexFrom(s, c, 1)
    IN  IF i = 0 THEN <<s>>
        ELSE <<SubSeq(s, 1, i - 1)>> \o SplitOn(SubSeq(s, i + 1, Len(s)), c)

\* s.split('\n')
Split(s) == SplitOn(s, NL)

\* s.replace(old, new) for single characters
Replace(s, old, new) == [i \in 1..Len(s) |-> IF s[i] = old THEN new ELSE s[i]]

-----------------------------------------------------------------------------
(* Python values *)

Str(s) == [t |-> "str", s |-> s, d |-> <<>>]
None == [t |-> "none", s |-> <<>>, d |-> <<>>]
\* a dict is its items in insertion order
Dict(items) == [t |-> "dict", s |-> <<>>, d |-> items]

\* d[k] = v: a key already there keeps its place and takes the new value
DictSet(d, k, v) ==
    IF \E i \in 1..Len(d.d) : d.d[i].k = k
    THEN Dict([i \in 1..Len(d.d) |->
                 IF d.d[i].k = k THEN [k |-> k, v |-> v] ELSE d.d[i]])
    ELSE Dict(Append(d.d, [k |-> k, v |-> v]))

DictKeys(d) == {d.d[i].k : i \in 1..Len(d.d)}

HasKey(d, k) == d.t = "dict" /\ k \in DictKeys(d)

DictGet(d, k) == d.d[CHOOSE i \in 1..Len(d.d) : d.d[i].k = k].v

\* a Python list
List(items) == [t |-> "list", s |-> <<>>, d |-> items]

\* bool(x) of a str, a dict, a list or None
Truthy(x) ==
    CASE x.t = "str" -> Len(x.s) > 0
      [] x.t = "none" -> FALSE
      [] OTHER -> Len(x.d) > 0

-----------------------------------------------------------------------------
(* The metadata service, as _make_request sees it *)

Ok(text) == [ok |-> TRUE, body |-> text]
\* a requests.RequestException whose str() is e
Fail(e) == [ok |-> FALSE, body |-> <<e>>]

\* session.get(urljoin(base_url, path)) followed by raise_for_status()
Answer(n, path) == IF path \in DOMAIN n.over THEN n.over[path] ELSE n.dflt

-----------------------------------------------------------------------------
(* src/code.py: AWSMetadataClient *)

\* the outcome of a call: the value returned (or the message of the
\* exception raised, ok = FALSE), the paths fetched and the lines printed
Outcome(ok, v, log, out) == [ok |-> ok, v |-> v, log |-> log, out |-> out]

code_make_request(n, path) ==
    LET r == Answer(n, path)
    IN  IF r.ok
        THEN Outcome(TRUE, Str(r.body), <<path>>, <<>>)
        ELSE Outcome(FALSE,
                     Str(<<"Failed to retrieve metadata from ">> \o path
                         \o <<": ">> \o r.body),
                     <<path>>, <<>>)

RECURSIVE code_get_metadata_recursive(_, _)
RECURSIVE code_for_line(_, _, _, _, _)

\* the loop body without the inner try: a file that fails ends the loop and
\* the handler of _get_metadata_recursive answers for the whole directory
code_for_line_uncaught(n, path, lines, i, acc) ==
    IF i > Len(lines) THEN acc
    ELSE
      LET line == lines[i]
          item_path == path \o line
      IN  IF Len(line) = 0
          THEN code_for_line(n, path, lines, i + 1, acc)
          ELSE IF EndsWith(line, SLASH)
          THEN LET sub == code_get_metadata_recursive(n, item_path)
               IN  code_for_line(n, path, lines, i + 1,
                      Outcome(TRUE, DictSet(acc.v, DropLast(line), sub.v),
                              acc.log \o sub.log, acc.out \o sub.out))
          ELSE LET got == code_make_request(n, item_path)
               IN  IF got.ok
                   THEN code_for_line(n, path, lines, i + 1,
                          Outcome(TRUE, DictSet(acc.v, line, got.v),
                                  acc.log \o got.log, acc.out \o got.out))
                   ELSE Outcome(TRUE,
                                Str(<<"Error retrieving ">> \o path \o <<": ">>
                                    \o got.v.s),
                                acc.log \o got.log, acc.out \o got.out)

\* the loop body with the value of a file stripped of white space
code_for_line_stripped(n, path, lines, i, acc) ==
    IF i > Len(lines) THEN acc
    ELSE
      LET line == lines[i]
          item_path == path \o line
      IN  IF Len(line) = 0
          THEN code_for_line(n, path, lines, i + 1, acc)
          ELSE IF EndsWith(line, SLASH)
          THEN LET sub == code_get_metadata_recursive(n, item_path)
               IN  code_for_line(n, path, lines, i + 1,
                      Outcome(TRUE, DictSet(acc.v, DropLast(line), sub.v),
                              acc.log \o sub.log, acc.out \o sub.out))
          ELSE LET got == code_make_request(n, item_path)
                   value == IF got.ok THEN Str(Strip(got.v.s))
                            ELSE Str(<<"Error: ">> \o got.v.s)
               IN  code_for_line(n, path, lines, i + 1,
                      Outcome(TRUE, DictSet(acc.v, line, value),
                              acc.log \o got.log, acc.out \o got.out))

\* the body of `for line in lines`, from line i on; acc is the outcome so far
code_for_line(n, path, lines, i, acc) ==
    IF i > Len(lines) THEN acc
    ELSE
      LET line == lines[i]
          item_path == path \o line
      IN  IF Len(line) = 0
          THEN code_for_line(n, path, lines, i + 1, acc)
          ELSE IF EndsWith(line, SLASH)
          THEN LET sub == code_get_metadata_recursive(n, item_path)
               IN  code_for_line(n, path, lines, i + 1,
                      Outcome(TRUE, DictSet(acc.v, DropLast(line), sub.v),
                              acc.log \o sub.log, acc.out \o sub.out))
          ELSE LET got == code_make_request(n, item_path)
                   value == IF got.ok THEN got.v
                            ELSE Str(<<"Error: ">> \o got.v.s)
               IN  code_for_line(n, path, lines, i + 1,
                      Outcome(TRUE, DictSet(acc.v, line, value),
                              acc.log \o got.log, acc.out \o got.out))

code_get_metadata_recursive(n, path) ==
    LET got == code_make_request(n, path)
    IN  IF got.ok
        THEN code_for_line(n, path, Split(Strip(got.v.s)), 1,
                           Outcome(TRUE, Dict(<<>>), got.log, got.out))
        ELSE Outcome(TRUE,
                     Str(<<"Error retrieving ">> \o path \o <<": ">> \o got.v.s),
                     got.log, got.out)

\* get_all_metadata after the token step
code_get_all_metadata(n) == code_get_metadata_recursive(n, <<>>)

\* get_specific_key with the failure swallowed: the key mapped to None
code_get_specific_key_swallow(n, key_path) ==
    LET got == code_make_request(n, key_path)
    IN  Outcome(TRUE,
                Dict(<<[k |-> key_path, v |-> IF got.ok THEN got.v ELSE None]>>),
                got.log, got.out)

\* get_specific_key after the token step
code_get_specific_key(n, key_path) ==
    LET got == code_make_request(n, key_path)
    IN  IF got.ok
        THEN Outcome(TRUE, Dict(<<[k |-> key_path, v |-> got.v]>>),
                     got.log, got.out)
        ELSE Outcome(TRUE,
                     Dict(<<[k |-> <<"error">>,
                             v |-> Str(<<"Could not retrieve key '">> \o key_path
                                       \o <<"': ">> \o got.v.s)]>>),
                     got.log, got.out)

-----------------------------------------------------------------------------
(* src/aws_metadata_query.py: AWSMetadataClient *)

aws_make_request(n, endpoint) ==
    LET r == Answer(n, endpoint)
    IN  IF r.ok
        THEN Outcome(TRUE, Str(r.body), <<endpoint>>, <<>>)
        ELSE Outcome(TRUE, None, <<endpoint>>,
                     <<Str(<<"Error querying ">> \o endpoint \o <<": ">>
                           \o r.body)>>)

\* drops the empty lines of `lines`
RECURSIVE NonEmpty(_)
NonEmpty(lines) ==
    IF Len(lines) = 0 THEN <<>>
    ELSE IF Len(Head(lines)) = 0 THEN NonEmpty(Tail(lines))
    ELSE <<Head(lines)>> \o NonEmpty(Tail(lines))

\* _parse_directory that keeps the trailing '/' of a line
aws_parse_directory_unstripped(content) == NonEmpty(Split(Strip(content)))

aws_parse_directory(content) ==
    LET lines == NonEmpty(Split(Strip(content)))
    IN  [i \in 1..Len(lines) |-> RStripSlash(lines[i])]

\* the test without its second half: content.endswith('/')
aws_is_listing_slash_only(content) == EndsWith(content, SLASH)

\* content.endswith('/') or '\n' in content
aws_is_listing(content) == EndsWith(content, SLASH) \/ Contains(content, NL)

RECURSIVE aws_get_nested_metadata(_, _)
RECURSIVE aws_for_item(_, _, _, _, _)

\* the loop body with a second '/' put between the endpoint and the item
aws_for_item_slash(n, endpoint, items, i, acc) ==
    IF i > Len(items) THEN acc
    ELSE
      LET item == items[i]
          item_endpoint == endpoint \o <<SLASH>> \o item \o <<SLASH>>
          got == aws_make_request(n, RStripSlash(item_endpoint))
      IN  IF Truthy(got.v) /\ aws_is_listing(got.v.s)
          THEN LET sub == aws_get_nested_metadata(n, item_endpoint)
               IN  aws_for_item(n, endpoint, items, i + 1,
                      Outcome(TRUE, DictSet(acc.v, item, sub.v),
                              acc.log \o got.log \o sub.log,
                              acc.out \o got.out \o sub.out))
          ELSE aws_for_item(n, endpoint, items, i + 1,
                      Outcome(TRUE, DictSet(acc.v, item, got.v),
                              acc.log \o got.log, acc.out \o got.out))

\* the body of `for item in items`, from item i on; acc is the outcome so far
aws_for_item(n, endpoint, items, i, acc) ==
    IF i > Len(items) THEN acc
    ELSE
      LET item == items[i]
          item_endpoint == endpoint \o item \o <<SLASH>>
          got == aws_make_request(n, RStripSlash(item_endpoint))
      IN  IF Truthy(got.v) /\ aws_is_listing(got.v.s)
          THEN LET sub == aws_get_nested_metadata(n, item_endpoint)
               IN  aws_for_item(n, endpoint, items, i + 1,
                      Outcome(TRUE, DictSet(acc.v, item, sub.v),
                              acc.log \o got.log \o sub.log,
                              acc.out \o got.out \o sub.out))
          ELSE aws_for_item(n, endpoint, items, i + 1,
                      Outcome(TRUE, DictSet(acc.v, item, got.v),
                              acc.log \o got.log, acc.out \o got.out))

aws_get_nested_metadata(n, endpoint) ==
    LET got == aws_make_request(n, endpoint)
    IN  IF got.v = None
        THEN Outcome(TRUE, Dict(<<>>), got.log, got.out)
        ELSE IF aws_is_listing(got.v.s)
        THEN aws_for_item(n, endpoint, aws_parse_directory(got.v.s), 1,
                          Outcome(TRUE, Dict(<<>>), got.log, got.out))
        ELSE got

\* no RequestException reaches get_all_metadata: its handler never runs
aws_get_all_metadata(n) == aws_get_nested_metadata(n, <<>>)

\* get_metadata_key with '_' sent to '/' as '.' is
aws_get_metadata_key_slashes(n, k) ==
    aws_make_request(n, Replace(Replace(k, ".", SLASH), "_", SLASH))

aws_get_metadata_key(n, k) ==
    aws_make_request(n, Replace(Replace(k, ".", SLASH), "_", "-"))

RECURSIVE collect_keys(_, _, _)
\* collect_keys(data, prefix) from item i of data on
collect_keys(data, prefix, i) ==
    IF i > Len(data.d) THEN <<>>
    ELSE
      LET full_key == IF Len(prefix) > 0
                      THEN prefix \o <<SLASH>> \o data.d[i].k
                      ELSE data.d[i].k
          here == IF data.d[i].v.t = "dict"
                  THEN collect_keys(data.d[i].v, full_key, 1)
                  ELSE <<full_key>>
      IN  here \o collect_keys(data, prefix, i + 1)

\* ok = FALSE: metadata.items() raised AttributeError (metadata is a str)
aws_list_available_keys(n) ==
    LET all == aws_get_all_metadata(n)
    IN  IF all.v.t = "dict"
        THEN Outcome(TRUE,
                     List([i \in 1..Len(collect_keys(all.v, <<>>, 1)) |->
                             Str(collect_keys(all.v, <<>>, 1)[i])]),
                     all.log, all.out)
        ELSE Outcome(FALSE,
                     Str(<<"'str' object has no attribute 'items'">>),
                     all.log, all.out)

-----------------------------------------------------------------------------
(* Output of the two main() functions *)

\* ord(c) of the characters of the model; a literal piece sorts after them
CodePoint(c) ==
    CASE c = NL -> 10
      [] c = " " -> 32
      [] c = "-" -> 45
      [] c = "." -> 46
      [] c = SLASH -> 47
      [] c = "_" -> 95
      [] c = "a" -> 97
      [] c = "v" -> 118
      [] c = "w" -> 119
      [] OTHER -> 128

\* s < t as Python compares str
RECURSIVE StrLess(_, _)
StrLess(s, t) ==
    IF Len(t) = 0 THEN FALSE
    ELSE IF Len(s) = 0 THEN TRUE
    ELSE IF CodePoint(Head(s)) # CodePoint(Head(t))
         THEN CodePoint(Head(s)) < CodePoint(Head(t))
    ELSE StrLess(Tail(s), Tail(t))

\* the text an element is sorted by: the key of a dict item, the text of a str
SortKeyOf(x) == IF "k" \in DOMAIN x THEN x.k ELSE x.s

\* x put into the sorted sequence xs, after its equals (sorting is stable)
RECURSIVE InsertSorted(_, _)
InsertSorted(x, xs) ==
    IF Len(xs) = 0 THEN <<x>>
    ELSE IF StrLess(SortKeyOf(x), SortKeyOf(Head(xs))) THEN <<x>> \o xs
    ELSE <<Head(xs)>> \o InsertSorted(x, Tail(xs))

\* sorted(xs)
RECURSIVE Sorted(_)
Sorted(xs) ==
    IF Len(xs) = 0 THEN <<>>
    ELSE InsertSorted(xs[Len(xs)], Sorted(DropLast(xs)))

\* the document json.dumps(x, sort_keys=True) writes: every dict by sorted key
RECURSIVE SortKeys(_)
SortKeys(x) ==
    IF x.t = "dict"
    THEN Dict(Sorted([i \in 1..Len(x.d) |->
                        [k |-> x.d[i].k, v |-> SortKeys(x.d[i].v)]]))
    ELSE x

\* print(json.dumps(x)); indent=2 changes the white space of the text only
Json(x) == [t |-> "json", s |-> <<>>, d |-> <<x>>]

\* _get_token / _get_imds_token: what it prints when the PUT fails
TokenWarning(tokOk) ==
    IF tokOk THEN <<>>
    ELSE <<Str(<<"Warning: Could not get IMDSv2 token, falling back to IMDSv1: ",
                 "timeout">>)>>

TokenOf(tokOk) == IF tokOk THEN "tok" ELSE "none"

-----------------------------------------------------------------------------
(* The services and the --key arguments the model runs the scripts on *)

\* a child name is a path segment: no '/' and no newline in it
Names == {<<"a">>, <<"_">>}

\* a line of a listing: a name, a name marked as a directory, or nothing
Lines == Names \cup {nm \o <<SLASH>> : nm \in Names} \cup {<<>>}

RECURSIVE Join(_)
Join(ls) ==
    IF Len(ls) = 0 THEN <<>>
    ELSE IF Len(ls) = 1 THEN ls[1]
    ELSE ls[1] \o <<NL>> \o Join(Tail(ls))

\* the bodies of at most k lines, with and without a final newline
Listings(k) ==
    LET seqs == UNION {[1..m -> Lines] : m \in 0..k}
    IN  {Join(ls) : ls \in seqs} \cup {Join(ls) \o <<NL>> : ls \in seqs}

Errors == {"timeout"}

RootAnswers == {Fail(e) : e \in Errors} \cup {Ok(t) : t \in Listings(MaxLines)}

\* what a path answers when nothing else is said about it
Defaults == {Fail("404"), Ok(<<"v">>)}

\* the body that reads as the message code.py stores for a failed child
ErrorLike(path, e) ==
    <<"Error: ", "Failed to retrieve metadata from ">> \o path \o <<": ", e>>

OverPaths == {<<"a">>, <<"a", SLASH>>, <<"_">>, <<"a", SLASH, "a">>}

OverAnswers ==
    {Fail(e) : e \in Errors}
      \cup {Ok(<<>>), Ok(<<"w">>), Ok(<<"a", SLASH>>), Ok(<<"a", NL>>),
            Ok(ErrorLike(<<"a">>, "timeout"))}

\* the partial answers on at most k of the paths
Overrides(paths, answers, k) ==
    UNION {[P -> answers] : P \in {Q \in SUBSET paths : Cardinality(Q) <= k}}

\* the paths the two tree walks ask the service n for
Asked(n) ==
    LET a == code_get_all_metadata(n).log
        b == aws_get_all_metadata(n).log
    IN  {a[i] : i \in 1..Len(a)} \cup {b[i] : i \in 1..Len(b)}

\* an answer no walk asks for changes nothing: the services of the model
\* say something only about the paths a walk reads
Namespaces ==
    {n \in {[over |-> (<<>> :> root) @@ o, dflt |-> d] :
               root \in RootAnswers,
               o \in Overrides(OverPaths, OverAnswers, MaxOverrides),
               d \in Defaults} :
        DOMAIN n.over \subseteq Asked(n)}

\* the --key arguments: the texts of 1..MaxKeyLen of these characters
KeyChars == {"a", ".", "_", SLASH}

Keys == UNION {[1..m -> KeyChars] : m \in 1..MaxKeyLen}

KeyOverPaths ==
    {<<"a">>, <<"a", SLASH>>, <<"a", "-">>, <<"a", "_">>, <<"a", ".">>}

KeyAnswers == {Fail(e) : e \in Errors} \cup {Ok(<<"w">>)}

\* the services of the single key runs
KeyNamespaces ==
    {[over |-> o, dflt |-> d] :
        o \in Overrides(KeyOverPaths, KeyAnswers, MaxOverrides),
        d \in Defaults}

-----------------------------------------------------------------------------
(* One run of a script: main() from the parsed arguments to the exit *)

Started ==
    /\ pc = "start"
    /\ script = "none"
    /\ mode = "none"
    /\ key = <<>>
    /\ token = "none"
    /\ result = None
    /\ fetches = <<>>
    /\ stdout = <<>>
    /\ exit = 0

Init == ns \in Namespaces /\ Started

InitKey == ns \in KeyNamespaces /\ Started

Ran(s, m, k, tok, r, log, out, status) ==
    /\ pc' = "done"
    /\ script' = s
    /\ mode' = m
    /\ key' = k
    /\ token' = tok
    /\ result' = r
    /\ fetches' = log
    /\ stdout' = out
    /\ exit' = status
    /\ UNCHANGED ns

\* code.py without --key and --list-keys
CodeAll ==
    /\ pc = "start"
    /\ \E tokOk \in BOOLEAN :
         LET r == code_get_all_metadata(ns)
         IN  Ran("code", "tree", <<>>, TokenOf(tokOk), r.v, r.log,
                 TokenWarning(tokOk) \o r.out \o <<Json(SortKeys(r.v))>>, 0)

\* code.py --list-keys
CodeListKeys ==
    /\ pc = "start"
    /\ LET got == code_make_request(ns, <<>>)
           lines == Split(Strip(got.v.s))
           keys == [i \in 1..Len(lines) |-> Str(RStripSlash(lines[i]))]
           listed == Dict(<<[k |-> <<"available_keys">>, v |-> List(keys)]>>)
       IN  IF got.ok
           THEN Ran("code", "list", <<>>, "none", listed, got.log,
                    <<Json(listed)>>, 0)
           ELSE Ran("code", "list", <<>>, "none", None, got.log,
                    <<Json(Dict(<<[k |-> <<"error">>, v |-> got.v]>>))>>, 1)

\* aws_metadata_query.py without --key and --list
AwsAll ==
    /\ pc = "start"
    /\ \E tokOk \in BOOLEAN :
         LET r == aws_get_all_metadata(ns)
         IN  IF Truthy(r.v)
             THEN Ran("aws", "tree", <<>>, TokenOf(tokOk), r.v, r.log,
                      TokenWarning(tokOk) \o r.out \o <<Json(r.v)>>, 0)
             ELSE Ran("aws", "tree", <<>>, TokenOf(tokOk), r.v, r.log,
                      TokenWarning(tokOk) \o r.out \o
                        <<Str(<<"No metadata found or unable to connect to metadata service">>)>>,
                      1)

\* aws_metadata_query.py --list
AwsList ==
    /\ pc = "start"
    /\ \E tokOk \in BOOLEAN :
         LET r == aws_list_available_keys(ns)
             head == TokenWarning(tokOk) \o r.out
         IN  IF ~r.ok
             THEN Ran("aws", "list", <<>>, TokenOf(tokOk), None, r.log,
                      head \o <<Str(<<"Unexpected error: ">> \o r.v.s)>>, 1)
             ELSE IF Truthy(r.v)
             THEN Ran("aws", "list", <<>>, TokenOf(tokOk), r.v, r.log,
                      head \o <<Str(<<"Available metadata keys:">>)>>
                        \o [i \in 1..Len(r.v.d) |->
                              Str(<<"  ">> \o Sorted(r.v.d)[i].s)],
                      0)
             ELSE Ran("aws", "list", <<>>, TokenOf(tokOk), r.v, r.log,
                      head \o <<Str(<<"No metadata keys found or unable to connect to metadata service">>)>>,
                      1)

\* code.py --key k
CodeKey(k) ==
    /\ pc = "start"
    /\ \E tokOk \in BOOLEAN :
         LET r == code_get_specific_key(ns, k)
         IN  Ran("code", "key", k, TokenOf(tokOk), r.v, r.log,
                 TokenWarning(tokOk) \o r.out \o <<Json(SortKeys(r.v))>>, 0)

\* aws_metadata_query.py --key k --format fmt
AwsKey(k, fmt) ==
    /\ pc = "start"
    /\ \E tokOk \in BOOLEAN :
         LET r == aws_get_metadata_key(ns, k)
             head == TokenWarning(tokOk) \o r.out
         IN  IF r.v # None
             THEN Ran("aws", "key", k, TokenOf(tokOk), r.v, r.log,
                      head \o <<IF fmt = "raw" THEN r.v
                                ELSE Json(Dict(<<[k |-> k, v |-> r.v]>>))>>,
                      0)
             ELSE Ran("aws", "key", k, TokenOf(tokOk), r.v, r.log,
                      head \o <<Str(<<"Key '">> \o k
                                    \o <<"' not found or inaccessible">>)>>,
                      1)

\* the runs that walk the tree
Next == CodeAll \/ CodeListKeys \/ AwsAll \/ AwsList

Spec == Init /\ [][Next]_vars

\* the runs that look one key up
NextKey ==
    \/ \E k \in Keys : CodeKey(k)
    \/ \E k \in Keys, fmt \in {"json", "raw"} : AwsKey(k, fmt)

SpecKey == InitKey /\ [][NextKey]_vars

-----------------------------------------------------------------------------
(* The notions of the specification *)

Done(s, m) == pc = "done" /\ script = s /\ mode = m

\* piece occurs in text
Infix(piece, text) ==
    \E i \in 1..(Len(text) + 1) :
        /\ i + Len(piece) - 1 <= Len(text)
        /\ SubSeq(text, i, i + Len(piece) - 1) = piece

\* the one fetch of a finished key run failed
LookupFailed ==
    /\ pc = "done" /\ mode = "key"
    /\ Len(fetches) = 1
    /\ ~Answer(ns, fetches[1]).ok

\* x is an error result that carries the text k and the failure message e
ErrorCarrying(x, k, e) ==
    /\ x.t = "dict"
    /\ HasKey(x, <<"error">>)
    /\ DictGet(x, <<"error">>).t = "str"
    /\ Infix(k, DictGet(x, <<"error">>).s)
    /\ Infix(e, DictGet(x, <<"error">>).s)

-----------------------------------------------------------------------------
(* C6 *)

\* C6 as stated: whenever the single fetch of Lookup(key) fails, Lookup
\* returns an Error result that carries the requested key and the underlying
\* failure message.  aws_metadata_query.py returns None.
C6_ErrorCarriesKeyAndMessage ==
    LookupFailed =>
        ErrorCarrying(result, key, Answer(ns, fetches[1]).body)

\* C6 as amended: whenever the single fetch of Lookup(key) fails, Lookup
\* returns no Value; code.py returns {"error": message} whose message carries
\* the requested key and the failure message; aws_metadata_query.py returns
\* None, and the path it asked for and the failure message are printed only.
C6_LookupFailureSurfaced ==
    LookupFailed =>
        /\ result.t # "str"
        /\ script = "code" =>
             ErrorCarrying(result, key, Answer(ns, fetches[1]).body)
        /\ script = "aws" =>
             /\ result = None
             /\ \E i \in 1..Len(stdout) :
                    /\ stdout[i].t = "str"
                    /\ Infix(fetches[1], stdout[i].s)
                    /\ Infix(Answer(ns, fetches[1]).body, stdout[i].s)

\* C6 witness: a code.py key run whose fetch timed out
C6_Witness ==
    /\ LookupFailed
    /\ script = "code"
    /\ Answer(ns, fetches[1]) = Fail("timeout")
    /\ Len(key) = MaxKeyLen

-----------------------------------------------------------------------------
(* C8 *)

\* C8 as stated: Lookup(key) issues exactly one fetch, of the key with every
\* '.' and every '_' replaced by '/'.  code.py replaces nothing and
\* aws_metadata_query.py replaces '_' by '-'.
C8_AliasesBecomeSlash ==
    (pc = "done" /\ mode = "key") =>
        fetches = <<Replace(Replace(key, ".", SLASH), "_", SLASH)>>

\* C8 as amended: Lookup(key) issues exactly one fetch; aws_metadata_query.py
\* asks for the key with every '.' replaced by '/' and every '_' replaced by
\* '-', code.py asks for the key unchanged.
C8_LookupPath ==
    (pc = "done" /\ mode = "key") =>
        fetches = <<IF script = "code" THEN key
                    ELSE [i \in 1..Len(key) |->
                            CASE key[i] = "." -> SLASH
                              [] key[i] = "_" -> "-"
                              [] OTHER -> key[i]]>>

\* C8 witness: an aws_metadata_query.py key run on a key with both aliases
C8_Witness ==
    /\ Done("aws", "key")
    /\ Contains(key, ".")
    /\ Contains(key, "_")

-----------------------------------------------------------------------------
(* The tree walk *)

\* Walk(path) of script s on the service n
Walk(s, n, path) ==
    IF s = "code" THEN code_get_metadata_recursive(n, path)
    ELSE aws_get_nested_metadata(n, path)

TreeDone == pc = "done" /\ mode = "tree"

\* the paths the finished run's walk function was entered with: the root,
\* and every fetched path that ends with '/' (a child is fetched without)
Walked == {<<>>} \cup {fetches[i] : i \in {j \in 1..Len(fetches) :
                                              EndsWith(fetches[j], SLASH)}}

\* the syntactic classes of a response text: a Listing ends with '/' or
\* holds a newline, a Leaf is any other text that is not empty
IsListing(text) == EndsWith(text, SLASH) \/ Contains(text, NL)
IsLeaf(text) == Len(text) > 0 /\ ~IsListing(text)

\* the non-empty lines of a response text, as a sequence and as a set
LinesOf(text) ==
    LET ls == Split(text)
    IN  {ls[i] : i \in {j \in 1..Len(ls) : Len(ls[j]) > 0}}

\* a line with its trailing '/' removed
KeyOf(line) == IF EndsWith(line, SLASH) THEN DropLast(line) ELSE line

\* the node a mapping holds at key k; Missing when x holds none
Missing == [t |-> "missing", s |-> <<>>, d |-> <<>>]
NodeOf(x, k) == IF HasKey(x, k) THEN DictGet(x, k) ELSE Missing

\* the non-empty lines of the answer to p, in order, white space around the
\* answer set aside
ReadLines(p) == NonEmpty(Split(Strip(Answer(ns, p).body)))

\* the walk of script s reads the answer to p as a listing
ReadsListing(s, p) ==
    /\ Answer(ns, p).ok
    /\ s = "aws" => IsListing(Answer(ns, p).body)

\* the path script s fetches for the child on line l of the listing at p
ChildPath(s, p, l) == IF s = "code" THEN p \o l ELSE p \o KeyOf(l)

\* no line of another spelling has the key of line i
UniqueKey(lines, i) ==
    \A j \in 1..Len(lines) :
        KeyOf(lines[j]) = KeyOf(lines[i]) => lines[j] = lines[i]

\* the service n with the answer to path replaced by r
NsWith(n, path, r) == [n EXCEPT !.over = (path :> r) @@ n.over]

\* the texts a fetch may succeed with
AnswerTexts ==
    {a.body : a \in {b \in RootAnswers \cup OverAnswers \cup Defaults : b.ok}}

-----------------------------------------------------------------------------
(* C2 *)

\* C2: for every path the walk is entered with whose fetch succeeds with a
\* Listing response, Walk(path) returns a mapping whose key set is exactly
\* the set of the non-empty lines of the response, each without its
\* trailing '/'.
C2_ListingKeySet ==
    TreeDone =>
        /\ result = Walk(script, ns, <<>>).v
        /\ \A p \in Walked :
             (Answer(ns, p).ok /\ IsListing(Answer(ns, p).body)) =>
                 /\ Walk(script, ns, p).v.t = "dict"
                 /\ DictKeys(Walk(script, ns, p).v)
                      = {KeyOf(l) : l \in LinesOf(Answer(ns, p).body)}

\* C2 witness: the root answered a listing with an empty line and a line
\* marked with '/', and the walk below the root met a listing too
C2_Witness ==
    /\ TreeDone
    /\ Answer(ns, <<>>).ok
    /\ \E i \in 1..Len(Split(Answer(ns, <<>>).body)) :
           /\ Len(Split(Answer(ns, <<>>).body)[i]) = 0
           /\ i < Len(Split(Answer(ns, <<>>).body))
    /\ \E l \in LinesOf(Answer(ns, <<>>).body) : EndsWith(l, SLASH)
    /\ \E p \in Walked \ {<<>>} :
           /\ Answer(ns, p).ok /\ IsListing(Answer(ns, p).body)
           /\ DictKeys(Walk(script, ns, p).v) # {}

-----------------------------------------------------------------------------
(* C10 *)

\* path is parent, one name free of '/' and at most one final '/'
IsChildOf(path, parent) ==
    /\ Len(path) > Len(parent)
    /\ SubSeq(path, 1, Len(parent)) = parent
    /\ LET name == KeyOf(SubSeq(path, Len(parent) + 1, Len(path)))
       IN  Len(name) > 0 /\ ~Contains(name, SLASH)

\* C10: in a tree walk from the root no path handed to the fetcher begins
\* with '/', and the path fetched for a child is the path of its parent and
\* its name joined with exactly one '/', at every depth.
C10_ChildPathsJoined ==
    TreeDone =>
        \A i \in 1..Len(fetches) :
            /\ Len(fetches[i]) > 0 => fetches[i][1] # SLASH
            /\ \A j \in 1..Len(fetches[i]) :
                   (j > 1 /\ fetches[i][j] = SLASH) => fetches[i][j - 1] # SLASH
            /\ i = 1 => fetches[i] = <<>>
            /\ i > 1 =>
                 \E h \in 1..(i - 1) :
                     /\ h = 1 \/ EndsWith(fetches[h], SLASH)
                     /\ IsChildOf(fetches[i], fetches[h])

\* C10 witness: a path two levels below the root was fetched
C10_Witness ==
    /\ TreeDone
    /\ \E i \in 1..Len(fetches) :
           /\ Len(SplitOn(fetches[i], SLASH)) = 2
           /\ Len(SplitOn(fetches[i], SLASH)[2]) > 0

-----------------------------------------------------------------------------
(* C3 *)

\* C3 as stated: for every path the walk is entered with whose fetch
\* succeeds with a Leaf response, Walk(path) returns Value(text), the text
\* unchanged, and fetches nothing more.  code.py reads the Leaf as a listing
\* of one line.
C3_LeafIsValue ==
    TreeDone =>
        \A p \in Walked :
            (Answer(ns, p).ok /\ IsLeaf(Answer(ns, p).body)) =>
                /\ Walk(script, ns, p).v = Str(Answer(ns, p).body)
                /\ Walk(script, ns, p).log = <<p>>

\* C3 as amended: in aws_metadata_query.py a Leaf response to a path the
\* walk is entered with is returned as Value(text), unchanged, with no
\* further fetch.  In code.py a child listed without a trailing '/' is
\* Value(text) of its response, unchanged, whatever the text, with no
\* further fetch; a Leaf response to the root or to a child listed with a
\* trailing '/' is read as a listing of one line: Walk returns a mapping
\* with that line as its only key and fetches it.
C3_LeafIsValueUnlessWalkedAsDirectory ==
    TreeDone =>
        /\ script = "aws" =>
             \A p \in Walked :
                 (Answer(ns, p).ok /\ IsLeaf(Answer(ns, p).body)) =>
                     /\ Walk("aws", ns, p).v = Str(Answer(ns, p).body)
                     /\ Walk("aws", ns, p).log = <<p>>
        /\ script = "code" =>
             \A p \in {q \in Walked : Answer(ns, q).ok} :
                 /\ \A i \in 1..Len(ReadLines(p)) :
                        LET l == ReadLines(p)[i]
                        IN  ( /\ ~EndsWith(l, SLASH)
                              /\ Answer(ns, p \o l).ok
                              /\ \A j \in 1..Len(ReadLines(p)) :
                                     ReadLines(p)[j] # l \o <<SLASH>> ) =>
                                NodeOf(Walk("code", ns, p).v, l)
                                  = Str(Answer(ns, p \o l).body)
                 /\ (\A i \in 1..Len(ReadLines(p)) :
                        ~EndsWith(ReadLines(p)[i], SLASH)) =>
                        Walk("code", ns, p).log
                          = <<p>> \o [i \in 1..Len(ReadLines(p)) |->
                                        p \o ReadLines(p)[i]]
                 /\ IsLeaf(Answer(ns, p).body) =>
                        /\ DictKeys(Walk("code", ns, p).v)
                             = {Strip(Answer(ns, p).body)}
                        /\ Walk("code", ns, p).log
                             = <<p, p \o Strip(Answer(ns, p).body)>>

\* C3 witness: code.py walked a child listed with '/' that answered a Leaf,
\* and met a child listed without '/' that answered a Listing
C3_Witness ==
    /\ TreeDone /\ script = "code"
    /\ \E p \in Walked \ {<<>>} :
           Answer(ns, p).ok /\ IsLeaf(Answer(ns, p).body)
    /\ \E p \in Walked : \E i \in 1..Len(ReadLines(p)) :
           /\ Answer(ns, p).ok
           /\ ~EndsWith(ReadLines(p)[i], SLASH)
           /\ Answer(ns, p \o ReadLines(p)[i]).ok
           /\ IsListing(Answer(ns, p \o ReadLines(p)[i]).body)

-----------------------------------------------------------------------------
(* C4 *)

\* C4: when the fetch of a path the walk is entered with succeeds with the
\* empty response, Walk(path) returns an empty mapping, neither an Error nor
\* a Value.  aws_metadata_query.py returns the empty str.
C4_EmptyResponseIsEmptySubtree ==
    TreeDone =>
        \A p \in Walked :
            (Answer(ns, p).ok /\ Answer(ns, p).body = <<>>) =>
                /\ Walk(script, ns, p).v = Dict(<<>>)
                /\ p = <<>> => result = Dict(<<>>)

-----------------------------------------------------------------------------
(* C5 *)

\* the node of tree at the path of these segments, Missing when there is none
RECURSIVE NodeAt(_, _)
NodeAt(tree, segs) ==
    IF Len(segs) = 0 THEN tree
    ELSE NodeAt(NodeOf(tree, Head(segs)), Tail(segs))

\* C5: every path Enumerate(Walk(root)) emits is one Lookup retrieves from
\* the unchanged service, with the string the tree holds as a Value there.
\* list_available_keys emits the children whose fetch failed, and
\* get_metadata_key rewrites the '_' of a name.
C5_EnumeratedKeysLookUp ==
    (pc = "done" /\ script = "aws" /\ mode = "list" /\ result.t = "list") =>
        \A i \in 1..Len(result.d) :
            LET path == result.d[i].s
                node == NodeAt(aws_get_all_metadata(ns).v,
                               SplitOn(path, SLASH))
            IN  /\ node.t = "str"
                /\ aws_get_metadata_key(ns, path).v = node

-----------------------------------------------------------------------------
(* C7 *)

\* C7: in full-tree mode the run ends with a non-zero exit status whenever
\* the fetch of the root fails, and with exit status 0 whenever the root
\* answers a listing and at least one child is obtained.  code.py exits 0
\* when the root fetch fails.
C7_ExitStatus ==
    TreeDone =>
        /\ ~Answer(ns, <<>>).ok => exit # 0
        /\ ( /\ Answer(ns, <<>>).ok
             /\ IsListing(Answer(ns, <<>>).body)
             /\ \E i \in 2..Len(fetches) : Answer(ns, fetches[i]).ok ) =>
               exit = 0

-----------------------------------------------------------------------------
(* C1 *)

\* x carries the failure message e
CarriesMessage(x, e) == x.t = "str" /\ Infix(e, x.s)

\* x is what a child whose fetch succeeded with a Leaf could be as well
CouldBeValue(x) == x.t = "str" /\ x.s \in AnswerTexts

\* every sibling of line i of the listing at p holds the node it holds when
\* the fetch of path succeeds with any answer instead
SiblingsUntouched(p, i, path) ==
    \A j \in 1..Len(ReadLines(p)) :
        KeyOf(ReadLines(p)[j]) # KeyOf(ReadLines(p)[i]) =>
            /\ HasKey(Walk(script, ns, p).v, KeyOf(ReadLines(p)[j]))
            /\ \A r \in {a \in OverAnswers \cup Defaults : a.ok} :
                   NodeOf(Walk(script, NsWith(ns, path, r), p).v,
                          KeyOf(ReadLines(p)[j]))
                     = NodeOf(Walk(script, ns, p).v, KeyOf(ReadLines(p)[j]))

-----------------------------------------------------------------------------
(* C9 *)

\* C9 as stated: in a tree walk the kind of a child is decided by its own
\* response: a child whose fetch succeeds is a Subtree iff the response is a
\* Listing and a Value holding the text otherwise, whether or not its line
\* carried a trailing '/'.  code.py decides by the line.
C9_KindByResponse ==
    TreeDone =>
        \A p \in {q \in Walked : ReadsListing(script, q)} :
            \A i \in 1..Len(ReadLines(p)) :
                LET r == Answer(ns, ChildPath(script, p, ReadLines(p)[i]))
                    node == NodeOf(Walk(script, ns, p).v, KeyOf(ReadLines(p)[i]))
                IN  (UniqueKey(ReadLines(p), i) /\ r.ok) =>
                        /\ node.t = "dict" <=> IsListing(r.body)
                        /\ ~IsListing(r.body) => node = Str(r.body)

\* C9 as amended: aws_metadata_query.py decides the kind of a child by
\* responses, whether or not its line carried a trailing '/': a child whose
\* fetch (of its name without '/') succeeds with a Leaf or an empty response
\* is a Value holding that text; one whose fetch succeeds with a Listing is
\* what the walk of its name with '/' returns, a Subtree when that second
\* fetch fails or answers a Listing and a Value holding the second response
\* otherwise.  code.py decides by the line: a child listed with a trailing
\* '/' whose fetch succeeds is a Subtree whatever the response, a child
\* listed without whose fetch succeeds is a Value holding the response
\* unchanged, a Listing included.  In both, for a child whose key no line of
\* another spelling shares.
C9_KindByResponseOrByLine ==
    TreeDone =>
        \A p \in {q \in Walked : ReadsListing(script, q)} :
            \A i \in 1..Len(ReadLines(p)) :
                LET l == ReadLines(p)[i]
                    r == Answer(ns, ChildPath(script, p, l))
                    again == Answer(ns, p \o KeyOf(l) \o <<SLASH>>)
                    node == NodeOf(Walk(script, ns, p).v, KeyOf(l))
                IN  (UniqueKey(ReadLines(p), i) /\ r.ok) =>
                        /\ (script = "aws" /\ ~IsListing(r.body)) =>
                               node = Str(r.body)
                        /\ (script = "aws" /\ IsListing(r.body)) =>
                               IF again.ok /\ ~IsListing(again.body)
                               THEN node = Str(again.body)
                               ELSE node.t = "dict"
                        /\ (script = "code" /\ EndsWith(l, SLASH)) =>
                               node.t = "dict"
                        /\ (script = "code" /\ ~EndsWith(l, SLASH)) =>
                               node = Str(r.body)

\* C9 witness: aws_metadata_query.py made a Subtree of a child listed
\* without '/' whose fetch answered a Listing
C9_Witness ==
    /\ TreeDone /\ script = "aws"
    /\ ReadsListing("aws", <<>>)
    /\ \E i \in 1..Len(ReadLines(<<>>)) :
           /\ ~EndsWith(ReadLines(<<>>)[i], SLASH)
           /\ Answer(ns, ReadLines(<<>>)[i]).ok
           /\ IsListing(Answer(ns, ReadLines(<<>>)[i]).body)
           /\ NodeOf(result, ReadLines(<<>>)[i]).t = "dict"
           /\ Len(NodeOf(result, ReadLines(<<>>)[i]).d) > 0

=============================================================================
